---- MODULE Spec2Model ----
(***************************************************************************)
(* Model of the altloc handling of meeko/utils/rdkitutils.py:              *)
(*   AtomField, _build_rdkit_mol_for_altloc,                               *)
(*   build_one_rdkit_mol_per_altloc and _aux_altloc_mol_build.             *)
(*                                                                         *)
(* Python values are represented as follows.                               *)
(*   - an Optional[str] is a string; Python's None is the token None,      *)
(*     which is no altloc tag (altloc tags are at most one character);     *)
(*   - an object that may be None (a molecule, an index map) is Some(v),   *)
(*     the one-element tuple of its value, and Python's None is NoneObj,   *)
(*     the empty tuple;                                                    *)
(*   - a local variable not yet assigned holds Unbound;                    *)
(*   - RDKit atom indices and Python list indices are 0-based, TLA+        *)
(*     sequences are 1-based: the element with Python index i of a list l  *)
(*     is l[i + 1];                                                        *)
(*   - the molecules built in build_one_rdkit_mol_per_altloc live in       *)
(*     mols_dict; pdbmol refers to one of them by its key, Some(key), so   *)
(*     that the in-place edits of the finalization are edits of that       *)
(*     object.                                                             *)
(***************************************************************************)
EXTENDS Integers, Sequences, FiniteSets, TLC

VARIABLES
    atom_field_list,    \* argument: the list of AtomField
    requested_altloc,   \* argument of _aux_altloc_mol_build
    allowed_altloc,     \* argument of _aux_altloc_mol_build
    wanted_altloc,      \* argument of a direct call of _build_rdkit_mol_for_altloc
    pc,                 \* position in the running function
    mols_dict,          \* local of _aux_altloc_mol_build / the partition
    pdbmol,             \* local: NoneObj or Some(key), the molecule mols_dict[key][1]
    idx_to_rdkit,       \* local: NoneObj or Some(index map)
    missed_altloc,      \* local
    needed_altloc,      \* local
    needed_altoc,       \* local created by the misspelt assignment of line 252
    calls,              \* the calls made on the selected molecule, in order
    result,             \* the returned value
    error               \* the exception raised, "" when none

vars == <<atom_field_list, requested_altloc, allowed_altloc, wanted_altloc, pc,
          mols_dict, pdbmol, idx_to_rdkit, missed_altloc, needed_altloc,
          needed_altoc, calls, result, error>>

locals == <<mols_dict, pdbmol, idx_to_rdkit, missed_altloc, needed_altloc, needed_altoc>>
args == <<atom_field_list, requested_altloc, allowed_altloc, wanted_altloc>>

----------------------------------------------------------------------------
(* Bounds of the model *)

\* longest atom list given to _aux_altloc_mol_build
MaxAtoms == 3
\* longest atom list given to the two builders called directly
MaxBuildAtoms == 3
\* longest atom list whose finalization is explored
MaxFinalAtoms == 5
\* largest bond set the connectivity service answers with
MaxBonds == 4

----------------------------------------------------------------------------
(* Python values *)

None == "None"
NoneObj == <<>>
Some(v) == <<v>>
Unbound == [unbound |-> TRUE]

\* truth value of an Optional[str] in a condition
Truthy(s) == s # None /\ s # ""

\* the atomic number tested by line 269
NITROGEN == 7

\* rdkit.Geometry.Point3D
Point3D(x, y, z) == <<x, y, z>>

----------------------------------------------------------------------------
(* AtomField *)

AtomField(atomname, altloc, resname, chain, resnum, icode, x, y, z, atomic_nr) ==
    [atomname |-> atomname, altloc |-> altloc, resname |-> resname,
     chain |-> chain, resnum |-> resnum, icode |-> icode,
     x |-> x, y |-> y, z |-> z, atomic_nr |-> atomic_nr]

----------------------------------------------------------------------------
(* _build_rdkit_mol_for_altloc *)

\* Chem.Mol(): no atoms, no bonds, no conformer
EmptyMol == [atoms |-> <<>>, bonds |-> {}, conformer |-> <<>>]

GetNumAtoms(mol) == Len(mol.atoms)

\* Chem.Atom(atomic_nr) with its PDB residue info set (lines 204-212)
RdkitAtom(atom) ==
    [atomic_nr |-> atom.atomic_nr,
     formal_charge |-> 0,
     res_info |-> [name |-> atom.atomname, resname |-> atom.resname,
                   resnum |-> atom.resnum, chain |-> atom.chain,
                   icode |-> atom.icode]]

\* variant: the filter is applied also when no altloc is wanted
SkippedAlsoWithoutWanted(atom, wanted) ==
    atom.altloc # "" /\ atom.altloc # wanted

\* variant: an atom without altloc is dropped when an altloc is wanted
SkippedUntagged(atom, wanted) ==
    /\ wanted # None
    /\ atom.altloc # wanted

\* the loop's `continue` (lines 200-203)
Skipped(atom, wanted) ==
    /\ wanted # None
    /\ atom.altloc # "" /\ atom.altloc # wanted

\* variant: the key is the position among the atoms kept
SetIdxFiltered(idx, index_list, index_rdkit) ==
    [k \in DOMAIN idx \cup {index_rdkit} |->
        IF k = index_rdkit THEN index_rdkit ELSE idx[k]]

\* idx_to_rdkit[index_list] = index_rdkit (line 214)
SetIdx(idx, index_list, index_rdkit) ==
    [k \in DOMAIN idx \cup {index_list} |->
        IF k = index_list THEN index_rdkit ELSE idx[k]]

\* the loop of lines 199-214 from Python index index_list on; st holds the
\* atoms added so far, positions and idx_to_rdkit
RECURSIVE BuildLoop(_, _, _, _)
BuildLoop(atom_fields_list, wanted, index_list, st) ==
    IF index_list >= Len(atom_fields_list) THEN st
    ELSE LET atom == atom_fields_list[index_list + 1] IN
         IF Skipped(atom, wanted)
         THEN BuildLoop(atom_fields_list, wanted, index_list + 1, st)
         ELSE LET index_rdkit == Len(st.atoms)   \* mol.AddAtom returns the new index
              IN BuildLoop(atom_fields_list, wanted, index_list + 1,
                    [atoms |-> Append(st.atoms, RdkitAtom(atom)),
                     positions |-> Append(st.positions, Point3D(atom.x, atom.y, atom.z)),
                     idx_to_rdkit |-> SetIdx(st.idx_to_rdkit, index_list, index_rdkit)])

\* Chem.Conformer(n) with SetAtomPosition(index, position) for each position
\* (lines 217-219): a function of the 0-based atom index
Conformer(n, positions) ==
    [index \in 0 .. n - 1 |->
        IF index < Len(positions) THEN positions[index + 1]
        ELSE Point3D(0, 0, 0)]

_build_rdkit_mol_for_altloc(atom_fields_list, wanted) ==
    LET st == BuildLoop(atom_fields_list, wanted, 0,
                        [atoms |-> <<>>, positions |-> <<>>, idx_to_rdkit |-> <<>>])
        mol == [EmptyMol EXCEPT !.atoms = st.atoms]
    IN <<[mol EXCEPT !.conformer = Conformer(GetNumAtoms(mol), st.positions)],
         st.idx_to_rdkit>>

----------------------------------------------------------------------------
(* build_one_rdkit_mol_per_altloc *)

\* variant: the key None is always present
AltlocKeysWithNone(atom_fields_list) ==
    ({atom_fields_list[i].altloc : i \in 1 .. Len(atom_fields_list)} \ {""})
        \cup {None}

\* the keys of the dictionary (lines 228-231)
AltlocKeys(atom_fields_list) ==
    LET altlocs == {atom_fields_list[i].altloc : i \in 1 .. Len(atom_fields_list)} \ {""}
    IN IF altlocs = {} THEN {None} ELSE altlocs

build_one_rdkit_mol_per_altloc(atom_fields_list) ==
    [altloc \in AltlocKeys(atom_fields_list) |->
        _build_rdkit_mol_for_altloc(atom_fields_list, altloc)]

----------------------------------------------------------------------------
(* Inputs *)

SeqsUpTo(S, n) == UNION {[1 .. k -> S] : k \in 0 .. n}

Altlocs == {"", "A", "B"}
\* values of requested_altloc and allowed_altloc: absent, empty, two tags that
\* may be keys and one that never is
PolicyAltlocs == {None, "", "A", "B", "Z"}

\* a nitrogen and a carbon of one residue
AtomsOf(altlocs, xs) ==
    {AtomField("N", a, "ALA", "A", 1, "", x, 0, 0, NITROGEN) : a \in altlocs, x \in xs}
    \cup {AtomField("CA", a, "ALA", "A", 1, "", x, 0, 0, 6) : a \in altlocs, x \in xs}

InitLocals ==
    /\ pc = "start"
    /\ mols_dict = Unbound
    /\ pdbmol = Unbound
    /\ idx_to_rdkit = Unbound
    /\ missed_altloc = Unbound
    /\ needed_altloc = Unbound
    /\ needed_altoc = Unbound
    /\ calls = <<>>
    /\ result = Unbound
    /\ error = ""

\* the state at the call of a function of the module
Init ==
    /\ atom_field_list \in SeqsUpTo(AtomsOf(Altlocs, {0}), MaxAtoms)
    /\ requested_altloc \in PolicyAltlocs
    /\ allowed_altloc \in PolicyAltlocs
    /\ wanted_altloc = None
    /\ InitLocals

----------------------------------------------------------------------------
(* _aux_altloc_mol_build *)

\* lines 239-241
Enter ==
    /\ pc = "start"
    /\ missed_altloc' = FALSE
    /\ needed_altloc' = FALSE
    /\ mols_dict' = build_one_rdkit_mol_per_altloc(atom_field_list)
    /\ pc' = "resolve"
    /\ UNCHANGED <<args, pdbmol, idx_to_rdkit, needed_altoc, calls, result, error>>

\* variant: allowed_altloc is looked up before a missing requested_altloc
\* is reported
ResolveBranchAllowedFirst(d, requested, allowed) ==
    LET has_altloc == None \notin DOMAIN d IN
    IF has_altloc /\ requested = None /\ allowed = None THEN 1
    ELSE IF Truthy(requested) /\ requested \in DOMAIN d THEN 2
    ELSE IF Truthy(allowed) /\ allowed \in DOMAIN d THEN 4
    ELSE IF Truthy(requested) /\ requested \notin DOMAIN d THEN 3
    ELSE IF has_altloc /\ allowed \notin DOMAIN d THEN 5
    ELSE IF ~has_altloc /\ requested = None THEN 6
    ELSE 7

\* the branch of the if/elif chain of lines 243-262 that is taken, 1 to 7
ResolveBranch(d, requested, allowed) ==
    LET has_altloc == None \notin DOMAIN d IN
    IF has_altloc /\ requested = None /\ allowed = None THEN 1
    ELSE IF Truthy(requested) /\ requested \in DOMAIN d THEN 2
    ELSE IF Truthy(requested) /\ requested \notin DOMAIN d THEN 3
    ELSE IF Truthy(allowed) /\ allowed \in DOMAIN d THEN 4
    ELSE IF has_altloc /\ allowed \notin DOMAIN d THEN 5
    ELSE IF ~has_altloc /\ requested = None THEN 6
    ELSE 7

\* variant: branch 5 reports the altloc as missed, not as needed
BranchEffectMissedInFive(branch, d, requested, allowed, old) ==
    CASE branch = 1 -> [old EXCEPT !.pdbmol = NoneObj, !.missed_altloc = FALSE,
                                   !.needed_altloc = TRUE]
      [] branch = 2 -> [old EXCEPT !.pdbmol = Some(requested),
                                   !.idx_to_rdkit = Some(d[requested][2])]
      [] branch = 3 -> [old EXCEPT !.pdbmol = NoneObj, !.missed_altloc = TRUE,
                                   !.needed_altoc = FALSE]
      [] branch = 4 -> [old EXCEPT !.pdbmol = Some(allowed),
                                   !.idx_to_rdkit = Some(d[allowed][2])]
      [] branch = 5 -> [old EXCEPT !.pdbmol = NoneObj, !.needed_altloc = FALSE,
                                   !.missed_altloc = TRUE]
      [] branch = 6 -> [old EXCEPT !.pdbmol = Some(None),
                                   !.idx_to_rdkit = Some(d[None][2])]

\* variant: branch 1 does not set needed_altloc
BranchEffectNoFlagInOne(branch, d, requested, allowed, old) ==
    CASE branch = 1 -> [old EXCEPT !.pdbmol = NoneObj, !.missed_altloc = FALSE]
      [] branch = 2 -> [old EXCEPT !.pdbmol = Some(requested),
                                   !.idx_to_rdkit = Some(d[requested][2])]
      [] branch = 3 -> [old EXCEPT !.pdbmol = NoneObj, !.missed_altloc = TRUE,
                                   !.needed_altoc = FALSE]
      [] branch = 4 -> [old EXCEPT !.pdbmol = Some(allowed),
                                   !.idx_to_rdkit = Some(d[allowed][2])]
      [] branch = 5 -> [old EXCEPT !.pdbmol = NoneObj, !.needed_altloc = TRUE,
                                   !.missed_altloc = FALSE]
      [] branch = 6 -> [old EXCEPT !.pdbmol = Some(None),
                                   !.idx_to_rdkit = Some(d[None][2])]

\* the assignments of the branch taken (lines 244-260), as the new values of
\* the locals; the branch of line 252 assigns needed_altoc, not needed_altloc
BranchEffect(branch, d, requested, allowed, old) ==
    CASE branch = 1 -> [old EXCEPT !.pdbmol = NoneObj, !.missed_altloc = FALSE,
                                   !.needed_altloc = TRUE]
      [] branch = 2 -> [old EXCEPT !.pdbmol = Some(requested),
                                   !.idx_to_rdkit = Some(d[requested][2])]
      [] branch = 3 -> [old EXCEPT !.pdbmol = NoneObj, !.missed_altloc = TRUE,
                                   !.needed_altoc = FALSE]
      [] branch = 4 -> [old EXCEPT !.pdbmol = Some(allowed),
                                   !.idx_to_rdkit = Some(d[allowed][2])]
      [] branch = 5 -> [old EXCEPT !.pdbmol = NoneObj, !.needed_altloc = TRUE,
                                   !.missed_altloc = FALSE]
      [] branch = 6 -> [old EXCEPT !.pdbmol = Some(None),
                                   !.idx_to_rdkit = Some(d[None][2])]

\* lines 242-262
Resolve ==
    /\ pc = "resolve"
    /\ LET branch == ResolveBranch(mols_dict, requested_altloc, allowed_altloc)
           old == [pdbmol |-> pdbmol, idx_to_rdkit |-> idx_to_rdkit,
                   missed_altloc |-> missed_altloc, needed_altloc |-> needed_altloc,
                   needed_altoc |-> needed_altoc]
       IN IF branch = 7
          THEN /\ pc' = "raised"
               /\ error' = "RuntimeError"
               /\ UNCHANGED <<pdbmol, idx_to_rdkit, missed_altloc, needed_altloc,
                              needed_altoc>>
          ELSE LET new == BranchEffect(branch, mols_dict, requested_altloc,
                                       allowed_altloc, old)
               IN /\ pdbmol' = new.pdbmol
                  /\ idx_to_rdkit' = new.idx_to_rdkit
                  /\ missed_altloc' = new.missed_altloc
                  /\ needed_altloc' = new.needed_altloc
                  /\ needed_altoc' = new.needed_altoc
                  /\ pc' = "resolved"
                  /\ UNCHANGED error
    /\ UNCHANGED <<args, mols_dict, calls, result>>

\* the tuple of a return statement (lines 265 and 273)
ReturnValue(mol, idx, missed, needed) == <<mol, idx, missed, needed>>

\* lines 263-265
ReturnNoGraph ==
    /\ pc = "resolved"
    /\ pdbmol = NoneObj
    /\ idx_to_rdkit' = NoneObj
    /\ result' = ReturnValue(pdbmol, NoneObj, missed_altloc, needed_altloc)
    /\ pc' = "returned"
    /\ UNCHANGED <<args, mols_dict, pdbmol, missed_altloc, needed_altloc,
                   needed_altoc, calls, error>>

\* the molecule pdbmol refers to
Deref(d, ref) == d[ref[1]][1]

\* the unordered pairs of atom indices of a molecule of n atoms
Pairs(n) == {{i, j} : i, j \in 0 .. n - 1} \ {{i} : i \in 0 .. n - 1}

\* what rdDetermineBonds.DetermineConnectivity may infer for n atoms: the
\* geometry service is a black box, any set of bonds is possible
ConnectivityOutputs(n) == {b \in SUBSET Pairs(n) : Cardinality(b) <= MaxBonds}

\* lines 266-267
DetermineConnectivity ==
    /\ pc = "resolved"
    /\ pdbmol # NoneObj
    /\ \E bonds \in ConnectivityOutputs(GetNumAtoms(Deref(mols_dict, pdbmol))) :
          mols_dict' = [mols_dict EXCEPT ![pdbmol[1]][1].bonds = bonds]
    /\ calls' = Append(calls, "DetermineConnectivity")
    /\ pc' = "connected"
    /\ UNCHANGED <<args, pdbmol, idx_to_rdkit, missed_altloc, needed_altloc,
                   needed_altoc, result, error>>

\* atom.GetNeighbors() of the atom with 0-based index j
GetNeighbors(mol, j) == {k \in 0 .. GetNumAtoms(mol) - 1 : {j, k} \in mol.bonds}

\* variant: the element of the atom is not tested
QuaternaryAnyElement(mol, j) ==
    Cardinality(GetNeighbors(mol, j)) = 4

\* the condition of line 269 on the atom with 0-based index j
QuaternaryNitrogen(mol, j) ==
    /\ mol.atoms[j + 1].atomic_nr = NITROGEN
    /\ Cardinality(GetNeighbors(mol, j)) = 4

\* the loop of lines 268-270
SetFormalCharges(mol) ==
    [mol EXCEPT !.atoms =
        [j1 \in 1 .. Len(mol.atoms) |->
            IF QuaternaryNitrogen(mol, j1 - 1)
            THEN [mol.atoms[j1] EXCEPT !.formal_charge = 1]
            ELSE mol.atoms[j1]]]

\* lines 268-270
ChargeCorrection ==
    /\ pc = "connected"
    /\ mols_dict' = [mols_dict EXCEPT
                        ![pdbmol[1]][1] = SetFormalCharges(Deref(mols_dict, pdbmol))]
    /\ calls' = Append(calls, "SetFormalCharge")
    /\ pc' = "charged"
    /\ UNCHANGED <<args, pdbmol, idx_to_rdkit, missed_altloc, needed_altloc,
                   needed_altoc, result, error>>

\* lines 271-273 when Chem.SanitizeMol accepts the molecule
SanitizeMolReturn ==
    /\ pc = "charged"
    /\ calls' = Append(calls, "SanitizeMol")
    /\ result' = ReturnValue(pdbmol, idx_to_rdkit, missed_altloc, needed_altloc)
    /\ pc' = "returned"
    /\ UNCHANGED <<args, locals, error>>

\* line 271 when Chem.SanitizeMol rejects the molecule: the exception leaves
\* _aux_altloc_mol_build
SanitizeMolRaise ==
    /\ pc = "charged"
    /\ calls' = Append(calls, "SanitizeMol")
    /\ error' = "MolSanitizeException"
    /\ pc' = "raised"
    /\ UNCHANGED <<args, locals, result>>

Next ==
    \/ Enter
    \/ Resolve
    \/ ReturnNoGraph
    \/ DetermineConnectivity
    \/ ChargeCorrection
    \/ SanitizeMolReturn
    \/ SanitizeMolRaise

Spec == Init /\ [][Next]_vars

----------------------------------------------------------------------------
(* Direct calls of the two builders *)

InitBuild ==
    /\ atom_field_list \in SeqsUpTo(AtomsOf(Altlocs, {0, 1}), MaxBuildAtoms)
    /\ wanted_altloc \in {None, "A", "B"}
    /\ requested_altloc = None
    /\ allowed_altloc = None
    /\ InitLocals

\* mol, idx_to_rdkit = _build_rdkit_mol_for_altloc(atom_field_list, wanted_altloc)
CallBuild ==
    /\ pc = "start"
    /\ result' = _build_rdkit_mol_for_altloc(atom_field_list, wanted_altloc)
    /\ pc' = "built"
    /\ UNCHANGED <<args, locals, calls, error>>

\* rdkit_mol_dict = build_one_rdkit_mol_per_altloc(atom_field_list)
CallPartition ==
    /\ pc = "start"
    /\ result' = build_one_rdkit_mol_per_altloc(atom_field_list)
    /\ pc' = "partitioned"
    /\ UNCHANGED <<args, locals, calls, error>>

NextBuild ==
    \/ CallBuild
    \/ CallPartition

SpecBuild == InitBuild /\ [][NextBuild]_vars

----------------------------------------------------------------------------
(* _aux_altloc_mol_build on structures large enough for a quaternary atom *)

InitFinal ==
    /\ atom_field_list \in SeqsUpTo(AtomsOf({""}, {0}), MaxFinalAtoms)
    /\ requested_altloc \in {None, "Z"}
    /\ allowed_altloc = None
    /\ wanted_altloc = None
    /\ InitLocals

SpecFinal == InitFinal /\ [][Next]_vars

----------------------------------------------------------------------------
(* Properties *)

\* the distinct non-empty altloc tags of an atom list
NonEmptyTags(l) == {a \in {l[i].altloc : i \in 1 .. Len(l)} : a # ""}

\* the 0-based positions of the records of l with an altloc in tags
PositionsWithAltloc(l, tags) == {i \in 0 .. Len(l) - 1 : l[i + 1].altloc \in tags}

\* the graph node and the coordinate a record is turned into
NodeOf(a) == RdkitAtom(a)
CoordOf(a) == Point3D(a.x, a.y, a.z)

\* _aux_altloc_mol_build has selected a graph
GraphSelected ==
    /\ \/ pc \in {"resolved", "connected", "charged", "returned"}
       \/ pc = "raised" /\ error = "MolSanitizeException"
    /\ pdbmol # NoneObj

\* _aux_altloc_mol_build is past its resolution without having returned
Finalizing == pc \in {"connected", "charged"}

\* C1: the resolution is total: for every atom list and every pair of
\* requested_altloc and allowed_altloc, each None or any string, the empty
\* string included, the catch-all branch raising RuntimeError is never
\* reached.
C1_CatchAllUnreachable == ~(pc = "raised" /\ error = "RuntimeError")

\* C2: whenever a graph is selected it is the partition entry keyed by
\* requested_altloc if that is supplied and is a key; otherwise, with
\* requested_altloc absent, the entry keyed by allowed_altloc if that is a
\* key; otherwise the sentinel entry, and only when there are no altloc
\* variants and requested_altloc is absent. The index map is the one built
\* with the selected graph.
C2_SelectionPrecedence ==
    GraphSelected =>
        LET keys == DOMAIN mols_dict
            byRequested == requested_altloc # None /\ requested_altloc \in keys
            byAllowed == ~byRequested /\ requested_altloc = None
                         /\ allowed_altloc \in keys
            bySentinel == ~byRequested /\ ~byAllowed /\ requested_altloc = None
                          /\ None \in keys
        IN /\ \/ byRequested /\ pdbmol = Some(requested_altloc)
              \/ byAllowed /\ pdbmol = Some(allowed_altloc)
              \/ bySentinel /\ pdbmol = Some(None)
           /\ idx_to_rdkit = Some(mols_dict[pdbmol[1]][2])

\* the case of C3: a non-empty requested_altloc that is no tag of the list
C3_Case == Truthy(requested_altloc)
           /\ requested_altloc \notin NonEmptyTags(atom_field_list)

\* C3: with a non-empty requested_altloc that is not among the altloc tags
\* of the list, the call returns no graph and no index map, missed_altloc
\* true and needed_altloc false, whatever allowed_altloc is.
C3_MissedAltloc ==
    C3_Case =>
        /\ pc # "raised" /\ ~Finalizing
        /\ pc = "returned" => result = <<NoneObj, NoneObj, TRUE, FALSE>>

\* reached: such a call has returned although allowed_altloc is a key
C3_Witness ==
    /\ pc = "returned" /\ C3_Case
    /\ allowed_altloc \in NonEmptyTags(atom_field_list)

\* the case of C4: altloc variants, no requested_altloc, and an
\* allowed_altloc that is absent or no key of the partition
C4_Case ==
    /\ NonEmptyTags(atom_field_list) # {}
    /\ requested_altloc = None
    /\ allowed_altloc = None \/ allowed_altloc \notin NonEmptyTags(atom_field_list)

\* C4: when some record carries a non-empty altloc, requested_altloc is
\* absent and allowed_altloc is absent or not a key, the call returns
\* needed_altloc true, missed_altloc false, no graph and no index map, and
\* neither connectivity inference nor validation is run.
C4_NeededAltloc ==
    C4_Case =>
        /\ pc # "raised" /\ ~Finalizing
        /\ calls = <<>>
        /\ pc = "returned" => result = <<NoneObj, NoneObj, FALSE, TRUE>>

\* reached: such a call has returned with an allowed_altloc that names no key
C4_Witness == pc = "returned" /\ C4_Case /\ allowed_altloc = "Z"

\* C5: in a returned tuple the two flags are never both true, the graph is
\* absent iff exactly one flag is true, present iff both are false, and
\* the index map is absent exactly when the graph is.
C5_ResultShape ==
    pc = "returned" =>
        LET graph == result[1]
            idx == result[2]
            missed == result[3]
            needed == result[4]
        IN /\ ~(missed /\ needed)
           /\ (graph = NoneObj) <=> (missed # needed)
           /\ (graph # NoneObj) <=> (~missed /\ ~needed)
           /\ (idx = NoneObj) <=> (graph = NoneObj)

\* reached: a call with an empty requested_altloc has returned without graph
C5_Witness ==
    /\ pc = "returned" /\ requested_altloc = ""
    /\ result[1] = NoneObj /\ result[4] = TRUE

\* C6: the keys of the partition are the sentinel None alone, with a graph
\* of all the records, when no record carries a non-empty altloc, and
\* exactly the distinct non-empty tags otherwise.
C6_PartitionKeys ==
    pc = "partitioned" =>
        LET l == atom_field_list IN
        IF NonEmptyTags(l) = {}
        THEN /\ DOMAIN result = {None}
             /\ result[None][1].atoms = [k \in 1 .. Len(l) |-> NodeOf(l[k])]
        ELSE DOMAIN result = NonEmptyTags(l)

\* reached: a partition of a list with two tags
C6_Witness ==
    pc = "partitioned" /\ NonEmptyTags(atom_field_list) = {"A", "B"}

\* the records of l whose altloc is empty or t, in the order of l
RecordsFor(l, t) ==
    LET Keep(a) == a.altloc = "" \/ a.altloc = t IN SelectSeq(l, Keep)

\* C7: the graph stored under a tag t holds exactly the records whose
\* altloc is empty or t, each once and in input order.
C7_GraphPerTag ==
    pc = "partitioned" =>
        \A t \in NonEmptyTags(atom_field_list) :
            /\ t \in DOMAIN result
            /\ LET want == RecordsFor(atom_field_list, t)
                   mol == result[t][1]
               IN /\ GetNumAtoms(mol) = Len(want)
                  /\ mol.atoms = [k \in 1 .. Len(want) |-> NodeOf(want[k])]
                  /\ mol.conformer = [j \in 0 .. Len(want) - 1 |-> CoordOf(want[j + 1])]

\* reached: a partition of a list with an untagged record and two tags
C7_Witness ==
    /\ pc = "partitioned"
    /\ {atom_field_list[i].altloc : i \in 1 .. Len(atom_field_list)} = {"", "A", "B"}

\* the 0-based positions of the records _build_rdkit_mol_for_altloc keeps:
\* all of them without a wanted altloc, else the untagged and the wanted
Included(l, wanted) ==
    IF wanted = None THEN 0 .. Len(l) - 1
    ELSE PositionsWithAltloc(l, {"", wanted})

\* C8: the index map is an order-preserving bijection from the original
\* positions of the included records onto the graph positions 0..n-1, an
\* excluded record has no entry, and the coordinate at the graph position
\* of an entry is that of its record.
C8_IndexMapBijection ==
    pc = "built" =>
        LET l == atom_field_list
            mol == result[1]
            idx == result[2]
            n == GetNumAtoms(mol)
        IN /\ DOMAIN idx = Included(l, wanted_altloc)
           /\ {idx[i] : i \in DOMAIN idx} = 0 .. n - 1
           /\ \A i1, i2 \in DOMAIN idx : i1 < i2 => idx[i1] < idx[i2]
           /\ \A i \in DOMAIN idx : mol.conformer[idx[i]] = CoordOf(l[i + 1])

\* reached: a graph built for "A" from a list whose first record is
\* excluded and whose later records are kept
C8_Witness ==
    /\ pc = "built" /\ wanted_altloc = "A"
    /\ Len(atom_field_list) = 3
    /\ atom_field_list[1].altloc = "B"
    /\ atom_field_list[2].altloc = "A"
    /\ atom_field_list[3].altloc = ""
    /\ atom_field_list[2].x # atom_field_list[3].x

\* the charge the claim gives the atom with 0-based index j
C9_ExpectedCharge(mol, j) ==
    IF /\ mol.atoms[j + 1].atomic_nr = 7
       /\ Cardinality({b \in mol.bonds : j \in b}) = 4
    THEN 1 ELSE 0

\* C9: after a successful finalization every nitrogen with exactly four
\* inferred neighbours has formal charge +1 and every other atom formal
\* charge 0; the correction comes after connectivity inference and before
\* validation.
C9_QuaternaryNitrogenCharge ==
    (pc = "returned" /\ result[1] # NoneObj) =>
        LET mol == Deref(mols_dict, result[1]) IN
        /\ \A j \in 0 .. GetNumAtoms(mol) - 1 :
              mol.atoms[j + 1].formal_charge = C9_ExpectedCharge(mol, j)
        /\ calls = <<"DetermineConnectivity", "SetFormalCharge", "SanitizeMol">>

\* reached: a finalized graph with a nitrogen of four neighbours and a
\* carbon of four neighbours
C9_Witness ==
    /\ pc = "returned" /\ result[1] # NoneObj
    /\ LET mol == Deref(mols_dict, result[1]) IN
       \E j \in 0 .. GetNumAtoms(mol) - 1 :
          /\ mol.atoms[j + 1].atomic_nr = 7
          /\ Cardinality({b \in mol.bonds : j \in b}) = 4
          /\ mol.atoms[j + 1].formal_charge = 1

\* C10, as stated: without a wanted altloc the graph and the index map hold
\* only the records whose altloc is empty.
C10_OnlyUntaggedWithoutWanted ==
    (pc = "built" /\ wanted_altloc = None) =>
        LET l == atom_field_list IN
        /\ GetNumAtoms(result[1]) = Cardinality(PositionsWithAltloc(l, {""}))
        /\ DOMAIN result[2] = PositionsWithAltloc(l, {""})

\* C10, amended: without a wanted altloc the graph holds every record of
\* the list, tagged or not, in input order, and the index map is the
\* identity on the positions of the list.
C10_AllRecordsWithoutWanted ==
    (pc = "built" /\ wanted_altloc = None) =>
        LET l == atom_field_list IN
        /\ result[1].atoms = [k \in 1 .. Len(l) |-> NodeOf(l[k])]
        /\ result[2] = [i \in 0 .. Len(l) - 1 |-> i]

\* reached: a graph built without a wanted altloc from a list with a tag
C10_Witness ==
    /\ pc = "built" /\ wanted_altloc = None
    /\ NonEmptyTags(atom_field_list) # {}

====
